---- MODULE Spec2Model ----
(***************************************************************************)
(* A model of dimm.py (class D2RParser): the merge of D2RQ mapping files   *)
(* into one final mapping, the resolution of references through sibling    *)
(* files, and the cleanup passes that run before the mapping is stored.    *)
(*                                                                         *)
(* Strings (identifiers, file names) are sequences of tokens.  The tokens  *)
(* "#", "/" and "." are the separator characters the code looks for; any   *)
(* other token stands for a run of ordinary characters.  All files live in *)
(* one directory, so a path is modelled by its base name.                  *)
(*                                                                         *)
(* rdflib graphs are sets of triples <<s, p, o>>.  A loop that iterates    *)
(* over a graph query iterates over the answer computed when the loop      *)
(* starts (rdflib's memory store copies the matching set), in an order the *)
(* program does not control: the model keeps the not yet visited part of   *)
(* that answer in "pending" and visits its elements in any order.          *)
(* The namespace prefix registry is not modelled.                          *)
(***************************************************************************)
EXTENDS Integers, Sequences, FiniteSets, TLC

\* ------------------------------------------------------------ bounds
\* Length of the longest list of files handed to parse_file.
MaxPaths == 2
\* Number of files of the directory that may differ from the reference layout.
MaxDeviation == 1
\* Length of the longest identifier local_name is applied to on its own.
MaxUriLen == 4

\* ------------------------------------------------------------ RDF terms
IRI(id) == [kind |-> "iri", id |-> id, load |-> 0]
BNode(label, k) == [kind |-> "bnode", id |-> <<label>>, load |-> k]
Literal(v) == [kind |-> "lit", id |-> <<v>>, load |-> 0]
IsBNode(t) == t.kind = "bnode"

d2rq == <<"d2rq", "#">>
d2rq_ClassMap == IRI(d2rq \o <<"ClassMap">>)
d2rq_TranslationTable == IRI(d2rq \o <<"TranslationTable">>)
d2rq_Database == IRI(d2rq \o <<"Database">>)
d2rq_PropertyBridge == IRI(d2rq \o <<"PropertyBridge">>)
d2rq_refersToClassMap == IRI(d2rq \o <<"refersToClassMap">>)
d2rq_translateWith == IRI(d2rq \o <<"translateWith">>)
d2rq_dataStorage == IRI(d2rq \o <<"dataStorage">>)
RDF_type == IRI(<<"rdf", "#", "type">>)

\* The three reference predicates, in the order the code handles them, and the
\* type log_references expects of the target of each.
ReferenceProperty(k) ==
    CASE k = 1 -> d2rq_refersToClassMap
      [] k = 2 -> d2rq_translateWith
      [] k = 3 -> d2rq_dataStorage
ReferenceType(k) ==
    CASE k = 1 -> d2rq_ClassMap
      [] k = 2 -> d2rq_TranslationTable
      [] k = 3 -> d2rq_Database
Phases == {1, 2, 3}

\* ------------------------------------------------------------ graph queries
Subjects(g, p) == {t[1] : t \in {u \in g : u[2] = p}}
AllObjects(g) == {t[3] : t \in g}
Objects(g, p) == {t[3] : t \in {u \in g : u[2] = p}}
WithPredicate(g, p) == {t \in g : t[2] = p}
WithSubject(g, s) == {t \in g : t[1] = s}

\* ------------------------------------------------------------ local_name
FirstIndex(s, c) ==
    IF \E i \in 1..Len(s) : s[i] = c
    THEN CHOOSE i \in 1..Len(s) : s[i] = c /\ \A j \in 1..(i - 1) : s[j] # c
    ELSE 0
LastIndex(s, c) ==
    IF \E i \in 1..Len(s) : s[i] = c
    THEN CHOOSE i \in 1..Len(s) : s[i] = c /\ \A j \in (i + 1)..Len(s) : s[j] # c
    ELSE 0

\* A slip in line 54: the pattern "^.*#(.+)$", which cuts at the last "#".
local_name_str_LastSharp(cur_uri) ==
    LET i == LastIndex(cur_uri, "#")
        after_sharp == IF i > 0 /\ i < Len(cur_uri)
                       THEN SubSeq(cur_uri, i + 1, Len(cur_uri))
                       ELSE cur_uri
        j == LastIndex(after_sharp, "/")
    IN  IF j > 0 /\ j < Len(after_sharp)
        THEN SubSeq(after_sharp, j + 1, Len(after_sharp))
        ELSE after_sharp
\* re.search("^[^#]*#(.+)$"): the text after the first "#", when it is not empty;
\* then re.search("^.*/([^/]+)$"): the text after the last "/", when not empty.
local_name_str(cur_uri) ==
    LET i == FirstIndex(cur_uri, "#")
        after_sharp == IF i > 0 /\ i < Len(cur_uri)
                       THEN SubSeq(cur_uri, i + 1, Len(cur_uri))
                       ELSE cur_uri
        j == LastIndex(after_sharp, "/")
    IN  IF j > 0 /\ j < Len(after_sharp)
        THEN SubSeq(after_sharp, j + 1, Len(after_sharp))
        ELSE after_sharp
local_name(res) == local_name_str(res.id)

\* re.sub("\..+$", "", basename): cut at the first "." that has text after it.
FileStem(path) ==
    LET i == FirstIndex(path, ".")
    IN  IF i > 0 /\ i < Len(path) THEN SubSeq(path, 1, i - 1) ELSE path

IsPrefix(a, b) == Len(a) <= Len(b) /\ SubSeq(b, 1, Len(a)) = a

\* ------------------------------------------------------------ the files
\* Resources and files of the directory the runs work on.
ex(name) == IRI(<<"ex", "#">> \o name)
Map == ex(<<"map">>)
Bridge == ex(<<"pb">>)
Db == ex(<<"db">>)
Tt == ex(<<"tt">>)
Alt == ex(<<"alt", ".", "v2">>)
OtherDb == IRI(<<"other", "/", "db">>)
prop == ex(<<"p">>)
val == Literal("v")
b1 == BNode("b1", 0)
b2 == BNode("b2", 0)
b3 == BNode("b3", 0)

MapFile == <<"map", ".", "ttl">>
DbFile == <<"db", ".", "ttl">>
TtFile == <<"tt", ".", "ttl">>
AltFile == <<"alt", ".", "v2", ".", "ttl">>
FileNames == {MapFile, DbFile, TtFile, AltFile}
\* The order in which os.walk lists the directory.
DirListing == <<MapFile, DbFile, TtFile, AltFile>>

\* load: "ok" loads from its own path; "path" fails from its own path and loads
\* from a copy with a plain name; "bad" holds nothing any format parses.
File(load, triples) == [exists |-> TRUE, load |-> load, triples |-> triples]
Absent == [exists |-> FALSE, load |-> "ok", triples |-> {}]

\* The reference layout: a class map with a property bridge, its database and
\* translation table in sibling files, a reachable blank node and an orphan
\* chain of blank nodes.
MapTriples ==
    { <<Map, RDF_type, d2rq_ClassMap>>, <<Map, d2rq_dataStorage, Db>>,
      <<Bridge, RDF_type, d2rq_PropertyBridge>>,
      <<Bridge, d2rq_refersToClassMap, Map>>, <<Bridge, d2rq_translateWith, Tt>>,
      <<Map, prop, b1>>, <<b1, prop, val>>,
      <<b2, prop, b3>>, <<b3, prop, val>> }
DbTriples ==
    { <<Db, RDF_type, d2rq_Database>>, <<Db, prop, b1>>, <<b1, prop, b2>>,
      <<b2, prop, val>>, <<Bridge, prop, val>> }
TtTriples == { <<Tt, RDF_type, d2rq_TranslationTable>>, <<Tt, prop, val>> }
AltTriples == { <<Alt, RDF_type, d2rq_Database>>, <<Alt, prop, val>> }

Layout ==
    [n \in FileNames |->
        CASE n = MapFile -> File("ok", MapTriples)
          [] n = DbFile -> File("ok", DbTriples)
          [] n = TtFile -> File("ok", TtTriples)
          [] n = AltFile -> File("ok", AltTriples)]

\* What each file may hold instead.
MapVariants ==
    { Absent,
      File("path", MapTriples),
      File("bad", {}),
      File("ok", { <<Map, RDF_type, d2rq_ClassMap>>, <<Map, d2rq_dataStorage, Db>> }),
      File("ok", { <<Map, RDF_type, d2rq_ClassMap>>, <<Map, d2rq_dataStorage, Tt>>,
                   <<Map, d2rq_translateWith, Tt>> }),
      File("ok", { <<Map, RDF_type, d2rq_ClassMap>>, <<Map, d2rq_dataStorage, Alt>> }),
      File("ok", { <<Map, RDF_type, d2rq_ClassMap>>, <<Map, d2rq_dataStorage, Bridge>> }),
      File("ok", { <<Bridge, RDF_type, d2rq_PropertyBridge>>, <<Bridge, prop, val>> }) }
DbVariants ==
    { Absent,
      File("bad", {}),
      File("ok", { <<Db, RDF_type, d2rq_Database>>, <<Db, prop, val>> }),
      File("ok", { <<Db, RDF_type, d2rq_Database>>, <<Db, d2rq_dataStorage, OtherDb>> }),
      File("ok", { <<Db, RDF_type, d2rq_Database>>, <<Db, d2rq_refersToClassMap, Map>> }),
      File("ok", { <<Db, RDF_type, d2rq_ClassMap>>, <<Db, prop, val>> }),
      File("ok", { <<OtherDb, RDF_type, d2rq_Database>>, <<OtherDb, prop, val>> }),
      File("ok", { <<Bridge, RDF_type, d2rq_PropertyBridge>>, <<Db, prop, val>> }) }
TtVariants ==
    { Absent,
      File("ok", { <<Tt, RDF_type, d2rq_TranslationTable>>, <<Tt, d2rq_dataStorage, Db>>,
                   <<Db, prop, val>> }) }
AltVariants == { Absent }
Variants(n) ==
    CASE n = MapFile -> MapVariants
      [] n = DbFile -> DbVariants
      [] n = TtFile -> TtVariants
      [] n = AltFile -> AltVariants

RECURSIVE Deviations(_)
\* The directories that differ from the layout in exactly the files of names.
Deviations(names) ==
    IF names = {} THEN {Layout}
    ELSE LET n == CHOOSE x \in names : TRUE
         IN  {[f EXCEPT ![n] = v] : f \in Deviations(names \ {n}), v \in Variants(n)}
FileSystems ==
    UNION {Deviations(names) :
             names \in {ns \in SUBSET FileNames : Cardinality(ns) <= MaxDeviation}}

RECURSIVE SeqsOf(_, _)
SeqsOf(S, n) ==
    IF n = 0 THEN {<<>>}
    ELSE {Append(q, x) : q \in SeqsOf(S, n - 1), x \in S}
PathLists == UNION {SeqsOf(FileNames, n) : n \in 1..MaxPaths}

\* The identifiers local_name is applied to on its own: the separators and two
\* runs of ordinary characters, in every arrangement.
UriTokens == {"#", "/", "ex", "Foo"}
Uris == UNION {SeqsOf(UriTokens, n) : n \in 0..MaxUriLen}

\* ------------------------------------------------------------ state
VARIABLES
    fs,                   \* the directory: file name -> file
    path_list,            \* the files parse_path_list hands to parse_file
    tmp_dir,              \* whether a scratch directory is configured
    final_mapping,        \* self.final_mapping, a set of triples
    classmap_set, translationtable_set, database_set,
    pc,                   \* where the run is
    idx,                  \* position in path_list
    cur_graph,            \* the graph parse_file has loaded
    phase,                \* which reference predicate a loop is on
    pending,              \* the part of the running loop's answer not yet visited
    nloads,               \* loads so far: each load names its blank nodes anew
    tmp_file,             \* whether tmp_rdf_file.rdf exists
    warnings,             \* what log_references has warned about
    calls,                \* the calls of retrieve_references, in order
    copied,               \* what the last parse_file copied from its file
    before,               \* the accumulator when the last parse_file began
    resolved,             \* the last call of retrieve_references
    at_report,            \* the final mapping log_references looked at
    run,                  \* first or second run over the same input
    first_result,         \* the results of the first run
    uri,                  \* the identifier local_name is applied to on its own
    name,                 \* what that call returned
    named                 \* whether that call has returned

inputs == <<fs, path_list, tmp_dir>>
sets == <<classmap_set, translationtable_set, database_set>>
history == <<calls, copied, before, resolved, at_report>>
twice == <<run, first_result>>
namer == <<uri, name, named>>
vars == <<fs, path_list, tmp_dir, final_mapping, classmap_set, translationtable_set,
          database_set, pc, idx, cur_graph, phase, pending, nloads, tmp_file,
          warnings, calls, copied, before, resolved, at_report, run, first_result,
          uri, name, named>>

NoPath == <<>>
NoResolve == [ref |-> IRI(<<>>), path |-> NoPath, graph |-> {}, imported |-> {},
              raised |-> FALSE]
NoResult == [parsed |-> {}, stored |-> {}]
NoBefore == [fm |-> {}, cm |-> {}, tt |-> {}, db |-> {}]

\* ------------------------------------------------------------ loading
\* A load gives every blank node of the file an identifier no other load gives.
Fresh(triples, k) ==
    LET inst(t) == IF IsBNode(t) THEN [t EXCEPT !.load = k] ELSE t
    IN  {<<inst(t[1]), t[2], inst(t[3])>> : t \in triples}

\* __load_graph_from_format: the graph, or an IOError; tmp_left tells whether the
\* scratch copy is still there when the call ends.
load_graph_from_format(files, rdf_file_path, tmp) ==
    LET f == files[rdf_file_path]
    IN  IF ~f.exists THEN [outcome |-> "error", graph |-> {}, tmp_left |-> FALSE]
        ELSE IF f.load = "ok"
             THEN [outcome |-> "graph", graph |-> f.triples, tmp_left |-> FALSE]
        ELSE IF ~tmp THEN [outcome |-> "error", graph |-> {}, tmp_left |-> FALSE]
        ELSE IF f.load = "path"
             THEN [outcome |-> "graph", graph |-> f.triples, tmp_left |-> FALSE]
        ELSE [outcome |-> "error", graph |-> {}, tmp_left |-> TRUE]

\* The loop of validate_file: some typed resource is named like the file.
Found(graph, cur_name) ==
    \E t \in graph : t[2] = RDF_type /\ local_name(t[1]) = cur_name

\* A slip in lines 211-216: the graph is returned whatever the loop found.
validate_file_Unchecked(files, cur_path, tmp) ==
    load_graph_from_format(files, cur_path, tmp)
validate_file(files, cur_path, tmp) ==
    LET r == load_graph_from_format(files, cur_path, tmp)
    IN  IF r.outcome = "graph" /\ ~Found(r.graph, FileStem(cur_path))
        THEN [r EXCEPT !.outcome = "none", !.graph = {}]
        ELSE r

\* The first file of the directory whose path starts with the given one and ".".
complete_file_path(files, incomplete_file_path) ==
    LET hits == {i \in 1..Len(DirListing) :
                    /\ files[DirListing[i]].exists
                    /\ IsPrefix(incomplete_file_path \o <<".">>, DirListing[i])}
    IN  IF hits = {} THEN NoPath
        ELSE DirListing[CHOOSE i \in hits : \A j \in hits : i <= j]

\* ------------------------------------------------------------ parse_file
\* A slip in line 75: only the data stores suppress the copy.
CopyStatements_DatabaseOnly(graph, tt_set, db_set) ==
    {t \in graph : t[1] \notin db_set}
\* Lines 71-76: the statements of the file that go to the final mapping.
CopyStatements(graph, tt_set, db_set) ==
    {t \in graph : t[1] \notin (tt_set \cup db_set)}
\* Lines 79-80.
DeclaredClassMaps(graph) == {t[1] : t \in {u \in graph : u[3] = d2rq_ClassMap}}

\* A slip in lines 123-127: the whole referenced file is taken.
ImportStatements_WholeFile(graph, cur_reference) == graph
\* Lines 123-127: what retrieve_references takes from the referenced graph.
ImportStatements(graph, cur_reference) ==
    LET direct == WithSubject(graph, cur_reference)
    IN  direct \cup {t \in graph : \E d \in direct : IsBNode(d[3]) /\ t[1] = d[3]}

retrieve_references(files, cur_reference, k) ==
    LET reference_file_path == complete_file_path(files, local_name(cur_reference))
        r == IF reference_file_path = NoPath
             THEN [outcome |-> "none", graph |-> {}, tmp_left |-> FALSE]
             ELSE validate_file(files, reference_file_path, FALSE)
        g == Fresh(r.graph, k)
    IN  [ref |-> cur_reference, path |-> reference_file_path, graph |-> g,
         imported |-> ImportStatements(g, cur_reference),
         raised |-> (r.outcome = "error")]

\* A slip in line 99: the loop of dataStorage tests the set of the loop before.
ResolvedSet_Copied(k) ==
    CASE k = 1 -> classmap_set
      [] k = 2 -> translationtable_set
      [] k = 3 -> translationtable_set
\* Lines 87, 93, 99: the set each loop tests.
ResolvedSet(k) ==
    CASE k = 1 -> classmap_set
      [] k = 2 -> translationtable_set
      [] k = 3 -> database_set
\* A slip in lines 87, 93, 99: the test of the resolved set is left out.
NeedsResolving_Always(cur_reference, resolved_set) == TRUE
\* Lines 87, 93, 99.
NeedsResolving(cur_reference, resolved_set) == cur_reference \notin resolved_set

\* The subjects clear_orphan_blank_nodes visits and may act on, one per statement.
BlankSubjectStatements(graph) == {t \in graph : IsBNode(t[1])}

TypeOK ==
    /\ fs \in FileSystems
    /\ path_list \in PathLists
    /\ tmp_dir \in BOOLEAN
    /\ pc \in {"main", "refs", "blank", "parsed", "bridges", "stored", "error"}
    /\ idx \in 1..(Len(path_list) + 1)
    /\ phase \in Phases
    /\ nloads \in Nat
    /\ tmp_file \in BOOLEAN
    /\ run \in {1, 2}

Init ==
    /\ fs \in FileSystems
    /\ path_list \in PathLists
    /\ tmp_dir \in BOOLEAN
    /\ final_mapping = {}
    /\ classmap_set = {}
    /\ translationtable_set = {}
    /\ database_set = {}
    /\ pc = "main"
    /\ idx = 1
    /\ cur_graph = {}
    /\ phase = 1
    /\ pending = {}
    /\ nloads = 0
    /\ tmp_file = FALSE
    /\ warnings = {}
    /\ calls = <<>>
    /\ copied = {}
    /\ before = NoBefore
    /\ resolved = NoResolve
    /\ at_report = {}
    /\ run = 1
    /\ first_result = NoResult
    /\ uri = <<>>
    /\ name = <<>>
    /\ named = FALSE

\* parse_file, lines 67-83: validate the file and copy its statements.
ParseFile ==
    /\ pc = "main"
    /\ idx <= Len(path_list)
    /\ LET r == validate_file(fs, path_list[idx], tmp_dir)
           g == Fresh(r.graph, nloads + 1)
       IN  /\ tmp_file' = (tmp_file \/ r.tmp_left)
           /\ before' = [fm |-> final_mapping, cm |-> classmap_set,
                         tt |-> translationtable_set, db |-> database_set]
           /\ cur_graph' = g
           /\ copied' = CopyStatements(g, translationtable_set, database_set)
           /\ final_mapping' = final_mapping \cup copied'
           /\ classmap_set' = classmap_set \cup DeclaredClassMaps(g)
           /\ nloads' = IF r.outcome = "graph" THEN nloads + 1 ELSE nloads
           /\ phase' = 1
           /\ CASE r.outcome = "error" -> pc' = "error" /\ pending' = {}
                [] r.outcome = "none" ->
                       /\ pc' = "blank"
                       /\ pending' = BlankSubjectStatements(final_mapping)
                [] r.outcome = "graph" ->
                       /\ pc' = "refs"
                       /\ pending' = WithPredicate(g, ReferenceProperty(1))
    /\ UNCHANGED <<inputs, namer, translationtable_set, database_set, idx, warnings, calls,
                   resolved, at_report, twice>>

\* One turn of a loop of lines 86-101.
ResolveReference ==
    /\ pc = "refs"
    /\ \E t \in pending :
         LET cur_reference == t[3]
             rr == retrieve_references(fs, cur_reference, nloads + 1)
         IN  /\ pending' = pending \ {t}
             /\ IF NeedsResolving(cur_reference, ResolvedSet(phase))
                THEN /\ classmap_set' =
                          IF phase = 1 THEN classmap_set \cup {cur_reference}
                          ELSE classmap_set
                     /\ translationtable_set' =
                          IF phase = 2 THEN translationtable_set \cup {cur_reference}
                          ELSE translationtable_set
                     /\ database_set' =
                          IF phase = 3 THEN database_set \cup {cur_reference}
                          ELSE database_set
                     /\ calls' = Append(calls, [k |-> phase, ref |-> cur_reference,
                                                file |-> idx])
                     /\ resolved' = rr
                     /\ final_mapping' = final_mapping \cup rr.imported
                     /\ nloads' = nloads + 1
                     /\ pc' = IF rr.raised THEN "error" ELSE pc
                ELSE UNCHANGED <<sets, calls, resolved, final_mapping, nloads, pc>>
    /\ UNCHANGED <<inputs, namer, idx, cur_graph, phase, tmp_file, warnings, copied, before,
                   at_report, twice>>

\* A loop of lines 86-101 ends: the next one starts, or clear_orphan_blank_nodes.
NextLoop ==
    /\ pc = "refs"
    /\ pending = {}
    /\ IF phase < 3
       THEN /\ phase' = phase + 1
            /\ pending' = WithPredicate(cur_graph, ReferenceProperty(phase + 1))
            /\ pc' = pc
       ELSE /\ phase' = phase
            /\ pending' = BlankSubjectStatements(final_mapping)
            /\ pc' = "blank"
    /\ UNCHANGED <<inputs, namer, final_mapping, sets, idx, cur_graph, nloads, tmp_file,
                   warnings, history, twice>>

\* A slip in line 168: the test that the blank node is no object is left out.
ClearOrphan_AnyBlankNode(graph, s) ==
    IF IsBNode(s) THEN graph \ WithSubject(graph, s) ELSE graph
\* One turn of the loop of clear_orphan_blank_nodes, lines 167-169.
ClearOrphan(graph, s) ==
    IF IsBNode(s) /\ s \notin AllObjects(graph)
    THEN graph \ WithSubject(graph, s)
    ELSE graph
ClearOrphanBlankNode ==
    /\ pc = "blank"
    /\ \E t \in pending :
         /\ pending' = pending \ {t}
         /\ final_mapping' = ClearOrphan(final_mapping, t[1])
    /\ UNCHANGED <<inputs, namer, sets, pc, idx, cur_graph, phase, nloads, tmp_file, warnings,
                   history, twice>>

\* parse_file returns.
EndParseFile ==
    /\ pc = "blank"
    /\ pending = {}
    /\ idx' = idx + 1
    /\ pc' = "main"
    /\ UNCHANGED <<inputs, namer, final_mapping, sets, cur_graph, phase, pending, nloads,
                   tmp_file, warnings, history, twice>>

\* ------------------------------------------------------------ parse_path_list
\* Lines 141-145: the references log_references warns about, as <<k, reference>>.
Unresolved(graph, k) ==
    {o \in Objects(graph, ReferenceProperty(k)) :
        <<o, RDF_type, ReferenceType(k)>> \notin graph}
\* Lines 159-162, once every file has been parsed.
LogReferences ==
    /\ pc = "main"
    /\ idx > Len(path_list)
    /\ warnings' = UNION {{<<k, o>> : o \in Unresolved(final_mapping, k)} : k \in Phases}
    /\ at_report' = final_mapping
    /\ pc' = "parsed"
    /\ UNCHANGED <<inputs, namer, final_mapping, sets, idx, cur_graph, phase, pending, nloads,
                   tmp_file, calls, copied, before, resolved, twice>>

\* ------------------------------------------------------------ store_mapping
\* store_mapping calls clear_orphan_property_bridges, whose first loop starts.
StoreMapping ==
    /\ pc = "parsed"
    /\ pc' = "bridges"
    /\ phase' = 1
    /\ pending' = WithPredicate(final_mapping, ReferenceProperty(1))
    /\ UNCHANGED <<inputs, namer, final_mapping, sets, idx, cur_graph, nloads, tmp_file,
                   warnings, history, twice>>

\* Line 184: the reference is the subject of some typing statement.
IsDeclared(graph, cur_reference) == cur_reference \in Subjects(graph, RDF_type)
\* A slip in lines 185-186: only the dangling statement is removed.
clear_d2rq_entity_StatementOnly(graph, cur_d2rq_entity, cur_reference) ==
    IF ~IsDeclared(graph, cur_reference)
    THEN {t \in graph : ~(t[1] = cur_d2rq_entity /\ t[3] = cur_reference)}
    ELSE graph
\* clear_d2rq_entity, lines 184-186.
clear_d2rq_entity(graph, cur_d2rq_entity, cur_reference) ==
    IF ~IsDeclared(graph, cur_reference)
    THEN graph \ WithSubject(graph, cur_d2rq_entity)
    ELSE graph
\* One turn of a loop of clear_orphan_property_bridges.
ClearPropertyBridge ==
    /\ pc = "bridges"
    /\ \E t \in pending :
         /\ pending' = pending \ {t}
         /\ final_mapping' = clear_d2rq_entity(final_mapping, t[1], t[3])
    /\ UNCHANGED <<inputs, namer, sets, pc, idx, cur_graph, phase, nloads, tmp_file, warnings,
                   history, twice>>

\* A loop of clear_orphan_property_bridges ends: the next one starts, or the
\* mapping is serialized.
NextPass ==
    /\ pc = "bridges"
    /\ pending = {}
    /\ IF phase < 3
       THEN /\ phase' = phase + 1
            /\ pending' = WithPredicate(final_mapping, ReferenceProperty(phase + 1))
            /\ pc' = pc
       ELSE /\ phase' = phase
            /\ pending' = pending
            /\ pc' = "stored"
    /\ UNCHANGED <<inputs, namer, final_mapping, sets, idx, cur_graph, nloads, tmp_file,
                   warnings, history, twice>>

\* ------------------------------------------------------------ a second run
\* __init__, lines 43-48, for a second run over the same files.  Blank nodes are
\* numbered from the start again, so that the two results can be compared.
Restart ==
    /\ pc = "stored"
    /\ run = 1
    /\ run' = 2
    /\ first_result' = [parsed |-> at_report, stored |-> final_mapping]
    /\ final_mapping' = {}
    /\ classmap_set' = {}
    /\ translationtable_set' = {}
    /\ database_set' = {}
    /\ pc' = "main"
    /\ idx' = 1
    /\ cur_graph' = {}
    /\ phase' = 1
    /\ pending' = {}
    /\ nloads' = 0
    /\ warnings' = {}
    /\ calls' = <<>>
    /\ copied' = {}
    /\ before' = NoBefore
    /\ resolved' = NoResolve
    /\ at_report' = {}
    /\ UNCHANGED <<inputs, namer, tmp_file>>

Next ==
    \/ ParseFile
    \/ ResolveReference
    \/ NextLoop
    \/ ClearOrphanBlankNode
    \/ EndParseFile
    \/ LogReferences
    \/ StoreMapping
    \/ ClearPropertyBridge
    \/ NextPass
Spec == Init /\ [][Next]_vars

NextTwice == Next \/ Restart
SpecTwice == Init /\ [][NextTwice]_vars

\* ------------------------------------------------------------ another order
Count(q, x) == Cardinality({i \in 1..Len(q) : q[i] = x})
\* The other orders in which the files of q can be handed over.
OtherOrders(q) ==
    {p \in SeqsOf(FileNames, Len(q)) :
        p # q /\ \A x \in FileNames : Count(p, x) = Count(q, x)}
\* __init__, lines 43-48, for a second run over the same files in another order.
Reorder ==
    /\ pc = "stored"
    /\ run = 1
    /\ run' = 2
    /\ path_list' \in OtherOrders(path_list)
    /\ first_result' = [parsed |-> at_report, stored |-> final_mapping]
    /\ final_mapping' = {}
    /\ classmap_set' = {}
    /\ translationtable_set' = {}
    /\ database_set' = {}
    /\ pc' = "main"
    /\ idx' = 1
    /\ cur_graph' = {}
    /\ phase' = 1
    /\ pending' = {}
    /\ nloads' = 0
    /\ warnings' = {}
    /\ calls' = <<>>
    /\ copied' = {}
    /\ before' = NoBefore
    /\ resolved' = NoResolve
    /\ at_report' = {}
    /\ UNCHANGED <<fs, tmp_dir, namer, tmp_file>>
NextReorder == Next \/ Reorder
SpecReorder == Init /\ [][NextReorder]_vars

\* ------------------------------------------------------------ local_name alone
\* A parser that has parsed nothing, and an identifier to name.
InitLocalName ==
    /\ fs = Layout
    /\ path_list = <<MapFile>>
    /\ tmp_dir = FALSE
    /\ final_mapping = {}
    /\ classmap_set = {}
    /\ translationtable_set = {}
    /\ database_set = {}
    /\ pc = "main"
    /\ idx = 1
    /\ cur_graph = {}
    /\ phase = 1
    /\ pending = {}
    /\ nloads = 0
    /\ tmp_file = FALSE
    /\ warnings = {}
    /\ calls = <<>>
    /\ copied = {}
    /\ before = NoBefore
    /\ resolved = NoResolve
    /\ at_report = {}
    /\ run = 1
    /\ first_result = NoResult
    /\ uri \in Uris
    /\ name = <<>>
    /\ named = FALSE
\* A call of the static method local_name, lines 50-62.
LocalName ==
    /\ ~named
    /\ name' = local_name(IRI(uri))
    /\ named' = TRUE
    /\ UNCHANGED <<inputs, final_mapping, sets, pc, idx, cur_graph, phase, pending,
                   nloads, tmp_file, warnings, history, twice, uri>>
NextLocalName == LocalName
SpecLocalName == InitLocalName /\ [][NextLocalName]_vars

\* ------------------------------------------------------------ claims
ReferenceProperties == {ReferenceProperty(k) : k \in Phases}

\* C1: when store_mapping serializes the final mapping, the object of every
\* statement with predicate refersToClassMap, translateWith or dataStorage is
\* the subject of a typing statement of the final mapping.
C1_DanglingBridgeInvariant ==
    pc = "stored" =>
        \A t \in final_mapping :
            t[2] \in ReferenceProperties => t[3] \in Subjects(final_mapping, RDF_type)

\* C2: when store_mapping serializes the final mapping, every blank node that is
\* the subject of a statement is the object of some statement.
C2_OrphanInvariant ==
    pc = "stored" =>
        \A t \in final_mapping : IsBNode(t[1]) => t[1] \in AllObjects(final_mapping)

C4_OncePerIdentifier ==
    \A i, j \in 1..Len(calls) : calls[i].ref = calls[j].ref => i = j
\* C4, amended: retrieve_references is called at most once for an identifier and
\* a reference predicate.
C4_OncePerIdentifierAndPredicate ==
    \A i, j \in 1..Len(calls) :
        (calls[i].ref = calls[j].ref /\ calls[i].k = calls[j].k) => i = j
\* C4: a later file refers again to an identifier an earlier file had resolved,
\* and its loops have ended.
C4_Witness ==
    /\ pc = "blank"
    /\ \E i \in 1..Len(calls) :
         /\ calls[i].file < idx
         /\ \E t \in cur_graph :
              t[2] = ReferenceProperty(calls[i].k) /\ t[3] = calls[i].ref

\* Some load of the run gave the final mapping this statement of a file.
Merged(t) == \E k \in 1..nloads : Fresh({t}, k) \subseteq final_mapping
\* The file is named after the local name of r: that name, ".", an extension.
NamedAfter(n, r) ==
    /\ IsPrefix(local_name(r) \o <<".">>, n)
    /\ Len(n) = Len(local_name(r)) + 2

\* C5: a valid file merged alone holds an entity e whose only reference is
\* (e, dataStorage, r), and a sibling file named after r declares r a Database:
\* then the stored final mapping holds the sibling's statements of r and the
\* file's statements of e, and no warning names r.
C5_ScenarioA ==
    (pc = "stored" /\ Len(path_list) = 1) =>
        LET f == fs[path_list[1]]
        IN  \A t \in f.triples : \A n \in FileNames :
              ( /\ f.load = "ok"
                /\ \E u \in f.triples :
                     u[2] = RDF_type /\ local_name(u[1]) = FileStem(path_list[1])
                /\ t[2] = d2rq_dataStorage
                /\ {u \in WithSubject(f.triples, t[1]) : u[2] \in ReferenceProperties}
                      = {t}
                /\ n # path_list[1]
                /\ fs[n].exists /\ fs[n].load = "ok"
                /\ NamedAfter(n, t[3])
                /\ <<t[3], RDF_type, d2rq_Database>> \in fs[n].triples )
              => ( /\ \A u \in WithSubject(fs[n].triples, t[3]) : Merged(u)
                   /\ \A u \in WithSubject(f.triples, t[1]) : Merged(u)
                   /\ \A k \in Phases : <<k, t[3]>> \notin warnings )

\* C6, as stated: when the mapping is stored, no statement is left of an entity
\* that referred, through a reference predicate, to an identifier log_references
\* warned about for that predicate.
C6_WarnedImpliesPruned ==
    pc = "stored" =>
        \A w \in warnings : \A t \in at_report :
            (t[2] = ReferenceProperty(w[1]) /\ t[3] = w[2])
                => WithSubject(final_mapping, t[1]) = {}
\* C6, amended: the same, for the identifiers warned about that were the subject
\* of no typing statement at all when log_references ran.
C6_WarnedUntypedImpliesPruned ==
    pc = "stored" =>
        \A w \in warnings : \A t \in at_report :
            ( /\ t[2] = ReferenceProperty(w[1])
              /\ t[3] = w[2]
              /\ w[2] \notin Subjects(at_report, RDF_type) )
                => WithSubject(final_mapping, t[1]) = {}
\* C6: the mapping is stored after a warning about an identifier without any
\* type, to which an entity with several statements referred.
C6_Witness ==
    /\ pc = "stored"
    /\ \E w \in warnings : \E t \in at_report :
         /\ t[2] = ReferenceProperty(w[1])
         /\ t[3] = w[2]
         /\ w[2] \notin Subjects(at_report, RDF_type)
         /\ Cardinality(WithSubject(at_report, t[1])) > 1

\* C7: a call of retrieve_references adds only statements of the reference and
\* statements of blank nodes that are objects of statements of the reference in
\* the referenced file.
C7_SelectiveImport ==
    \A t \in resolved.imported :
        \/ t[1] = resolved.ref
        \/ /\ IsBNode(t[1])
           /\ \E d \in resolved.graph : d[1] = resolved.ref /\ d[3] = t[1]
\* C7: a call imported statements and left out a statement of another resource
\* and a statement of a blank node reached through a blank node.
C7_Witness ==
    /\ resolved.imported # {}
    /\ resolved.imported \subseteq final_mapping
    /\ \E t \in resolved.graph \ resolved.imported : ~IsBNode(t[1])
    /\ \E t \in resolved.graph \ resolved.imported :
         /\ IsBNode(t[1])
         /\ \E d \in resolved.imported : IsBNode(d[1]) /\ d[3] = t[1]

\* The file name without its last "." and extension.
WithoutExtension(n) == SubSeq(n, 1, Len(n) - 2)
\* C8: after parse_file on an existing, parseable file that declares no typed
\* resource named like it, the final mapping and the three resolved sets are what
\* they were before the call.
C8_InvalidFileSkipped ==
    (pc = "main" /\ idx > 1) =>
        LET last == path_list[idx - 1]
        IN  ( /\ fs[last].exists
              /\ fs[last].load = "ok"
              /\ ~\E u \in fs[last].triples :
                     /\ u[2] = RDF_type
                     /\ local_name(u[1]) \in {FileStem(last), WithoutExtension(last)} )
            => ( /\ final_mapping = before.fm
                 /\ classmap_set = before.cm
                 /\ translationtable_set = before.tt
                 /\ database_set = before.db )

\* The sibling file the last call of retrieve_references found passes the
\* validation: it loads and declares a typed resource named like it.
SiblingLoads == fs[resolved.path].load = "ok"
SiblingDeclares ==
    \E u \in fs[resolved.path].triples :
        u[2] = RDF_type /\ local_name(u[1]) = FileStem(resolved.path)
\* C9, as stated: a call of retrieve_references that finds no sibling file, or
\* finds one that does not pass the validation, adds nothing and raises nothing.
C9_UnresolvedIsHarmless ==
    (calls # <<>> /\ (resolved.path = NoPath \/ ~(SiblingLoads /\ SiblingDeclares)))
        => (resolved.imported = {} /\ ~resolved.raised)
\* C9, amended: a call of retrieve_references that finds no sibling file, or
\* finds one that loads and declares no typed resource named like it, adds
\* nothing and raises nothing; a sibling file that does not load raises.
C9_UnresolvedIsHarmlessWhenLoaded ==
    /\ (calls # <<>> /\ (resolved.path = NoPath \/ (SiblingLoads /\ ~SiblingDeclares)))
           => (resolved.imported = {} /\ ~resolved.raised)
    /\ (calls # <<>> /\ resolved.path # NoPath /\ ~SiblingLoads)
           => (resolved.imported = {} /\ resolved.raised)
    /\ resolved.raised => pc = "error"
\* C9: a call found a sibling file that loads, holds statements of the reference
\* and declares no typed resource named like it, and the run went on.
C9_Witness ==
    /\ calls # <<>>
    /\ resolved.path # NoPath
    /\ SiblingLoads /\ ~SiblingDeclares
    /\ WithSubject(fs[resolved.path].triples, resolved.ref) # {}
    /\ pc = "stored"

\* C10: a second run over the same files ends parse_path_list and store_mapping
\* with the final mappings of the first run.
C10_Idempotence ==
    /\ (run = 2 /\ pc = "parsed") => final_mapping = first_result.parsed
    /\ (run = 2 /\ pc = "stored") => final_mapping = first_result.stored

\* Where the separator c is in the string s, and what follows position i.
Positions(s, c) == {i \in 1..Len(s) : s[i] = c}
Suffix(s, i) == SubSeq(s, i + 1, Len(s))
Least(S) == CHOOSE i \in S : \A j \in S : i <= j
Greatest(S) == CHOOSE i \in S : \A j \in S : j <= i
AfterLast(s, c) == IF Positions(s, c) = {} THEN s ELSE Suffix(s, Greatest(Positions(s, c)))
\* C11, as stated: local_name returns the part after the last "#" if there is
\* one, then of that the part after the last "/" if there is one.
C11_AfterLastSeparators ==
    named => name = AfterLast(AfterLast(uri, "#"), "/")
\* C11, amended: local_name returns the part after the first "#" when that part is
\* not empty, then of that the part after the last "/" when that part is not
\* empty, and the string it had otherwise; the three examples give "Foo".
C11_AfterFirstSharpLastSlash ==
    named =>
        LET P == Positions(uri, "#")
            h == IF P # {} /\ Least(P) < Len(uri) THEN Suffix(uri, Least(P)) ELSE uri
            Q == Positions(h, "/")
        IN  /\ name = IF Q # {} /\ Greatest(Q) < Len(h) THEN Suffix(h, Greatest(Q)) ELSE h
            /\ uri \in {<<"ex", "#", "Foo">>, <<"ex", "/", "Foo">>, <<"Foo">>}
                  => name = <<"Foo">>
            /\ (P = {} /\ Positions(uri, "/") = {}) => name = uri
\* C11: local_name has returned for an identifier with two "#" and a "/", and
\* has cut it.
C11_Witness ==
    /\ named
    /\ Cardinality(Positions(uri, "#")) >= 2
    /\ Positions(uri, "/") # {}
    /\ name # uri

\* The run is between __init__ and the return of parse_path_list.
Resolving == pc \in {"main", "refs", "blank"}
\* C12, as stated: until parse_path_list returns, no step removes a statement
\* from the final mapping.
C12_OnlyGrows ==
    [][Resolving => final_mapping \subseteq final_mapping']_vars
\* C12, amended: until parse_path_list returns, a step removes a statement only
\* in the blank-node pass that ends a parse_file call, and only if its subject
\* is a blank node that is the object of no statement; any other step only adds.
C12_OnlyOrphansLeave ==
    [][Resolving =>
          /\ \A t \in final_mapping \ final_mapping' :
                 /\ pc = "blank"
                 /\ IsBNode(t[1])
                 /\ t[1] \notin AllObjects(final_mapping)
          /\ pc # "blank" => final_mapping \subseteq final_mapping']_vars
\* C12: a parse_file call has returned, and a statement it had copied from its
\* file is no longer in the final mapping, while others are.
C12_Witness ==
    /\ pc = "main"
    /\ idx > 1
    /\ \E t \in copied : IsBNode(t[1]) /\ t \notin final_mapping
    /\ \E t \in copied : t \in final_mapping

\* The file passes validate_file when it is handed to parse_file.
ValidInput(n) == validate_file(fs, n, tmp_dir).outcome = "graph"
\* retrieve_references finds no file for r, or one validate_file rejects.
NoValidSibling(r) ==
    LET p == complete_file_path(fs, local_name(r))
    IN  p = NoPath \/ validate_file(fs, p, FALSE).outcome # "graph"
\* C13: after every parse_file call, for each identifier r of the translation
\* table set or the data store set: if the resolution of r found a valid sibling
\* file, the final mapping holds that file's statements with subject r; if it
\* found none, the final mapping holds the statements with subject r of every
\* valid file parsed so far, so that no direct definition of r is suppressed.
C13_ResolvedMeansImported ==
    (pc = "main" /\ idx > 1) =>
        \A r \in translationtable_set \cup database_set :
            /\ ~NoValidSibling(r) =>
                   \A u \in WithSubject(
                              fs[complete_file_path(fs, local_name(r))].triples, r) :
                       Merged(u)
            /\ NoValidSibling(r) =>
                   \A i \in 1..(idx - 1) :
                       ValidInput(path_list[i]) =>
                           \A u \in WithSubject(fs[path_list[i]].triples, r) : Merged(u)

\* The files parse_file has been called on so far.
Attempted == {i \in 1..Len(path_list) : i < idx \/ (i = idx /\ pc # "main")}
\* C14: once a load has ended, tmp_rdf_file.rdf does not exist, whether the load
\* from the copy succeeded or failed; and without a scratch directory a file that
\* does not load from its own path ends the run with its error.
C14_ScratchCopyRemoved ==
    /\ ~tmp_file
    /\ ~tmp_dir =>
          \A i \in Attempted :
              (fs[path_list[i]].exists /\ fs[path_list[i]].load # "ok") => pc = "error"

\* The statements without blank nodes: no renaming of blank nodes changes them.
Ground(graph) == {t \in graph : ~IsBNode(t[1]) /\ ~IsBNode(t[3])}
\* The input is a set of valid files.
ValidInputSet ==
    /\ \A i \in 1..Len(path_list) : ValidInput(path_list[i])
    /\ \A i, j \in 1..Len(path_list) : path_list[i] = path_list[j] => i = j
\* C15: a run over a set of valid files in another order merges and
\* stores the same statements as the first run (compared on the statements
\* without blank nodes).
C15_OrderIndependence ==
    (run = 2 /\ ValidInputSet) =>
        /\ pc = "parsed" => Ground(final_mapping) = Ground(first_result.parsed)
        /\ pc = "stored" => Ground(final_mapping) = Ground(first_result.stored)

\* File n refers, through a reference predicate, to a resource file m declares.
Refers(n, m) ==
    \E t \in fs[n].triples :
        t[2] \in ReferenceProperties /\ t[3] \in Subjects(fs[m].triples, RDF_type)
\* The identifiers the input files refer to through the k-th reference predicate.
Referenced(k) ==
    UNION {Objects(fs[path_list[i]].triples, ReferenceProperty(k)) :
             i \in 1..Len(path_list)}
CallsFor(k) == {i \in 1..Len(calls) : calls[i].k = k}
\* How far the run is from its end: the files left, the place in the program, the
\* loops left at that place, the turns left of the running loop.
PlaceRank ==
    CASE pc = "main" -> 6
      [] pc = "refs" -> 5
      [] pc = "blank" -> 4
      [] pc = "parsed" -> 3
      [] pc = "bridges" -> 2
      [] pc = "stored" -> 1
      [] pc = "error" -> 0
Rank == <<Len(path_list) + 1 - idx, PlaceRank, 3 - phase, Cardinality(pending)>>
\* The lexicographic order on ranks, which has no infinite descending chain.
Below(a, b) ==
    \E i \in 1..4 : a[i] < b[i] /\ \A j \in 1..(i - 1) : a[j] = b[j]
\* A step can be taken.  A turn of a loop of lines 86-101 can be taken whenever
\* the loop has an element left: past that test ResolveReference only assigns.
CanStep ==
    \/ pc = "refs" /\ pending # {}
    \/ ENABLED (ParseFile \/ NextLoop \/ ClearOrphanBlankNode \/ EndParseFile
                  \/ LogReferences \/ StoreMapping \/ ClearPropertyBridge \/ NextPass)
\* C16: every parse_file call and the whole run end, with files that refer to one
\* another or not: as long as the run has not ended (stored, or stopped by an
\* error) a step can be taken, every step takes the run to a lower rank, and the
\* ranks are tuples of natural numbers; and for each reference predicate
\* retrieve_references is called at most as often as there are identifiers the
\* input files refer to through it.
C16_Terminates ==
    /\ [](pc \in {"stored", "error"} \/ CanStep)
    /\ [](\A i \in 1..4 : Rank[i] \in Nat)
    /\ [][Below(Rank', Rank)]_vars
    /\ [](\A k \in Phases : Cardinality(CallsFor(k)) <= Cardinality(Referenced(k)))
\* C16: parse_path_list has ended on two files that refer to each other, after
\* retrieve_references was called for a resource of each.
C16_Witness ==
    /\ pc = "parsed"
    /\ \E i, j \in 1..Len(path_list) :
         /\ path_list[i] # path_list[j]
         /\ Refers(path_list[i], path_list[j])
         /\ Refers(path_list[j], path_list[i])
         /\ \E a, b \in 1..Len(calls) :
              /\ calls[a].ref \in Subjects(fs[path_list[i]].triples, RDF_type)
              /\ calls[b].ref \in Subjects(fs[path_list[j]].triples, RDF_type)
====
